---- MODULE Spec2Model ----
(***************************************************************************)
(* A model of the sinkingfund planning core: calendar arithmetic           *)
(* (utils/date_utils.py), the recurring bill model (models/bills.py), the  *)
(* cash-flow ledger and envelope (models/cash_flow.py, models/envelope.py) *)
(* and the contribution schedulers (schedules/indep_scheduler.py,          *)
(* schedules/lp_scheduler.py).                                             *)
(*                                                                         *)
(* Dates are integers yyyymmdd, so that date order is integer order.       *)
(* Money is an integer number of cents.                                    *)
(***************************************************************************)
EXTENDS Integers, Sequences, FiniteSets, TLC

VARIABLES
    date,       \* calendar: the date the stepping has reached
    call,       \* calendar: the last increment_date call and its outcome
    args,       \* the arguments Bill(...) was called with
    bill,       \* the Bill object (its attributes after __init__)
    query,      \* the last query made on the bill and its outcome
    env,        \* an Envelope: initial_allocation and its CashFlowSchedule
    bal,        \* the last balance query on env and its outcome
    envelopes,  \* the envelopes handed to a scheduler
    run,        \* the last scheduler call and its outcome
    lp,         \* the LP solved by the last LPScheduler call
    threads,    \* two scheduler calls running at once: positions and locals
    manager     \* a BillManager or an EnvelopeManager and the last call on it

vars == <<date, call, args, bill, query, env, bal, envelopes, run, lp, threads, manager>>

(***************************************************************************)
(* Bounds of the model.                                                    *)
(***************************************************************************)
\* Months after February 2024 from which stepping starts.
StartSpan == 1
\* Largest interval multiplier passed to increment_date.
MaxInterval == 2
\* Largest num_intervals passed to increment_date.
MaxReps == 3
\* Largest occurrence count a bill is constructed with.
MaxOccurrences == 3
\* Most iterations of a date-stepping loop that are followed.
MaxSteps == 32
\* Most cash flows a ledger holds.
MaxLedger == 3
\* Largest contribution interval of an envelope, in days.
MaxContribInterval == 3
\* Most envelopes in one scheduler call.
MaxEnvelopes == 2
\* Largest bill amount given to the global scheduler, in whole units.
MaxAmount == 3
MaxRuns == 2
MaxBills == 3
MaxManaged == 3

(***************************************************************************)
(* Python values.                                                          *)
(***************************************************************************)
\* None, for the optional integer and date arguments.
None == -999

Min(a, b) == IF a < b THEN a ELSE b
Max(a, b) == IF a > b THEN a ELSE b

\* The outcome of a call: a returned value or a raised exception.
Ok(v) == [status |-> "ok", value |-> v]
Raise(e) == [status |-> e, value |-> None]

\* The element of a one-element set. The({ e : x \in {v} }) is e with the
\* local variable x set to the value of v, v being evaluated once.
The(S) == CHOOSE r \in S : TRUE

(***************************************************************************)
(* datetime.date                                                           *)
(***************************************************************************)
MkDate(y, m, d) == y * 10000 + m * 100 + d
YearOf(x) == x \div 10000
MonthOf(x) == (x \div 100) % 100
DayOf(x) == x % 100

IsLeap(y) == (y % 4 = 0) /\ ((y % 100 # 0) \/ (y % 400 = 0))

\* calendar.monthrange(year, month)[1]: the number of days of the month.
monthrange(y, m) ==
    IF m = 2 THEN (IF IsLeap(y) THEN 29 ELSE 28)
    ELSE IF m \in {4, 6, 9, 11} THEN 30 ELSE 31

\* Days of the year before the first day of month m.
DaysBeforeMonth(y, m) ==
    <<0, 31, 59, 90, 120, 151, 181, 212, 243, 273, 304, 334>>[m]
      + (IF m > 2 /\ IsLeap(y) THEN 1 ELSE 0)

\* date.toordinal(): days since 0001-01-01, that day being 1.
toordinal(x) ==
    LET y == YearOf(x) - 1
    IN  y * 365 + (y \div 4) - (y \div 100) + (y \div 400)
          + DaysBeforeMonth(YearOf(x), MonthOf(x)) + DayOf(x)

\* date.fromordinal(n).
fromordinal(n) ==
    LET n0    == n - 1
        n400  == n0 \div 146097
        r400  == n0 % 146097
        n100  == r400 \div 36524
        r100  == r400 % 36524
        n4    == r100 \div 1461
        r4    == r100 % 1461
        n1    == r4 \div 365
        r1    == r4 % 365
        year  == n400 * 400 + n100 * 100 + n4 * 4 + n1 + 1
    IN  IF n1 = 4 \/ n100 = 4 THEN MkDate(year - 1, 12, 31)
        ELSE LET guess == ((r1 + 50) \div 32)
                 month == IF DaysBeforeMonth(year, guess) > r1
                          THEN guess - 1 ELSE guess
             IN  MkDate(year, month, r1 - DaysBeforeMonth(year, month) + 1)

\* date + datetime.timedelta(days=n)
AddDays(x, n) == fromordinal(toordinal(x) + n)
\* (a - b).days
DaysBetween(a, b) == toordinal(a) - toordinal(b)

IsDate(x) ==
    /\ MonthOf(x) \in 1..12
    /\ DayOf(x) \in 1..monthrange(YearOf(x), MonthOf(x))

(***************************************************************************)
(* utils/date_utils.py                                                     *)
(***************************************************************************)
Frequencies == {"daily", "weekly", "monthly", "quarterly", "annual"}

\* A plausible slip: the day is kept and never clamped to the target month.
increment_monthly_noclamp(d, num_months) ==
    LET month0 == MonthOf(d) - 1 + num_months
    IN  MkDate(YearOf(d) + (month0 \div 12), (month0 % 12) + 1, DayOf(d))

increment_monthly(d, num_months) ==
    LET month0 == MonthOf(d) - 1 + num_months
        year   == YearOf(d) + (month0 \div 12)
        month  == (month0 % 12) + 1
        day    == Min(DayOf(d), monthrange(year, month))
    IN  MkDate(year, month, day)

\* reference_date.replace(year=...), falling back to day 28.
annual_replace(d, years) ==
    LET year == YearOf(d) + years
    IN  IF DayOf(d) <= monthrange(year, MonthOf(d))
        THEN MkDate(year, MonthOf(d), DayOf(d))
        ELSE MkDate(year, MonthOf(d), 28)

\* A plausible slip: num_intervals is ignored (effective_interval = interval).
increment_date_once(reference_date, frequency, interval, num_intervals) ==
    IF interval = None \/ num_intervals = None THEN Raise("TypeError")
    ELSE IF interval < 1 \/ num_intervals < 1 THEN Raise("ValueError")
    ELSE IF frequency = "None" THEN Raise("AttributeError")
    ELSE CASE frequency = "daily" -> Ok(AddDays(reference_date, interval))
           [] frequency = "weekly" -> Ok(AddDays(reference_date, 7 * interval))
           [] frequency = "monthly" -> Ok(increment_monthly(reference_date, interval))
           [] frequency = "quarterly" ->
                  Ok(increment_monthly(reference_date, 3 * interval))
           [] frequency = "annual" -> Ok(annual_replace(reference_date, interval))
           [] OTHER -> Raise("ValueError")

increment_date(reference_date, frequency, interval, num_intervals) ==
    IF interval = None \/ num_intervals = None THEN Raise("TypeError")
    ELSE IF interval < 1 THEN Raise("ValueError")
    ELSE IF num_intervals < 1 THEN Raise("ValueError")
    ELSE IF frequency = "None" THEN Raise("AttributeError")
    ELSE LET effective_interval == interval * num_intervals
         IN  CASE frequency = "daily" ->
                      Ok(AddDays(reference_date, effective_interval))
               [] frequency = "weekly" ->
                      Ok(AddDays(reference_date, 7 * effective_interval))
               [] frequency = "monthly" ->
                      Ok(increment_monthly(reference_date, effective_interval))
               [] frequency = "quarterly" ->
                      Ok(increment_monthly(reference_date, 3 * effective_interval))
               [] frequency = "annual" ->
                      Ok(annual_replace(reference_date, effective_interval))
               [] OTHER -> Raise("ValueError")

(***************************************************************************)
(* models/bills.py: Bill                                                   *)
(***************************************************************************)
\* The end date of a bill given occurrences > 1, with the off-by-one slip of
\* stepping occurrences times instead of occurrences - 1.
end_date_from_occurrences_plus_one(start_date, frequency, interval, occurrences) ==
    increment_date(start_date, frequency, interval, occurrences)

\* The end date of a bill given occurrences > 1.
end_date_from_occurrences(start_date, frequency, interval, occurrences) ==
    increment_date(start_date, frequency, interval, occurrences - 1)

\* Bill._calculate_occurrences_in_range: count the due dates from start_date
\* up to end_date. Status "steps" says the loop ran beyond MaxSteps.
RECURSIVE count_occurrences(_, _, _, _, _)
count_occurrences(current_date, end_date, frequency, interval, occurrences) ==
    IF ~(current_date <= end_date) THEN Ok(occurrences)
    ELSE IF occurrences >= MaxSteps THEN [status |-> "steps", value |-> None]
    ELSE LET next == increment_date(current_date, frequency, interval, 1)
         IN  IF next.status # "ok" THEN next
             ELSE count_occurrences(next.value, end_date, frequency, interval,
                                    occurrences + 1)

_calculate_occurrences_in_range(start_date, end_date, frequency, interval) ==
    count_occurrences(start_date, end_date, frequency, interval, 0)

\* Bill.__init__: the attributes of the bill, or the exception raised.
Bill__init__(a) ==
    LET made == [status |-> "ok", bill_id |-> a.bill_id, service |-> a.service,
                 amount_due |-> a.amount_due, recurring |-> a.recurring,
                 start_date |-> a.start_date, end_date |-> a.end_date,
                 frequency |-> a.frequency, interval |-> a.interval,
                 occurrences |-> a.occurrences]
        failed(e) == [made EXCEPT !.status = e]
    IN  IF a.bill_id = "" \/ a.service = "" THEN failed("ValueError")
        ELSE IF a.amount_due <= 0 THEN failed("ValueError")
        ELSE IF a.recurring = FALSE
             THEN [made EXCEPT !.start_date = a.due_date,
                               !.end_date = a.due_date, !.occurrences = 1]
        ELSE IF a.end_date = None /\ a.occurrences # None /\ a.occurrences = 1
             THEN [made EXCEPT !.recurring = FALSE, !.end_date = a.start_date,
                               !.frequency = "None", !.interval = None]
        ELSE IF a.occurrences # None /\ a.occurrences > 1
             THEN LET e == end_date_from_occurrences(
                               a.start_date, a.frequency, a.interval, a.occurrences)
                  IN  IF e.status = "ok" THEN [made EXCEPT !.end_date = e.value]
                      ELSE failed(e.status)
        ELSE IF a.end_date # None /\ a.occurrences = None
             THEN LET n == _calculate_occurrences_in_range(
                               a.start_date, a.end_date, a.frequency, a.interval)
                  IN  IF n.status = "ok" THEN [made EXCEPT !.occurrences = n.value]
                      ELSE failed(n.status)
        ELSE made

\* Bill._next_due_date
_next_due_date(b, curr_due_date) ==
    increment_date(curr_due_date, b.frequency, b.interval, 1)

\* The loop of next_instance: step from current_date until the due date is
\* on or after (inclusive) or after (not inclusive) the reference date.
RECURSIVE next_instance_walk(_, _, _, _, _)
next_instance_walk(b, current_date, reference_date, inclusive, steps) ==
    IF ~(IF inclusive THEN current_date < reference_date
                      ELSE current_date <= reference_date)
    THEN Ok(current_date)
    ELSE IF steps >= MaxSteps THEN [status |-> "steps", value |-> None]
    ELSE LET next == _next_due_date(b, current_date)
         IN  IF next.status # "ok" THEN next
             ELSE next_instance_walk(b, next.value, reference_date, inclusive,
                                     steps + 1)

\* Bill.next_instance: the due date of the instance returned, None, or the
\* exception raised.
next_instance(b, reference_date, inclusive) ==
    IF b.end_date # None /\ reference_date > b.end_date THEN Ok(None)
    ELSE IF reference_date < b.start_date THEN Ok(b.start_date)
    ELSE LET found == next_instance_walk(b, b.start_date, reference_date,
                                         inclusive, 0)
         IN  IF found.status # "ok" THEN found
             ELSE IF b.end_date # None /\ found.value > b.end_date THEN Ok(None)
             ELSE found

\* The loop of instances_in_range.
RECURSIVE instances_loop(_, _, _, _, _, _)
instances_loop(b, current_due_date, start_reference, end_reference, instances, steps) ==
    IF ~(current_due_date <= end_reference) THEN Ok(instances)
    ELSE IF steps >= MaxSteps THEN [status |-> "steps", value |-> <<>>]
    ELSE LET kept == IF /\ start_reference <= current_due_date
                        /\ current_due_date <= end_reference
                     THEN Append(instances, current_due_date) ELSE instances
             next == _next_due_date(b, current_due_date)
         IN  IF next.status # "ok" THEN [status |-> next.status, value |-> <<>>]
             ELSE instances_loop(b, next.value, start_reference, end_reference,
                                 kept, steps + 1)

\* Bill.instances_in_range: the due dates of the instances returned, in the
\* order returned, or the exception raised.
instances_in_range(b, start_reference, end_reference) ==
    IF ~b.recurring
    THEN IF start_reference <= b.start_date /\ b.start_date <= end_reference
         THEN Ok(<<b.start_date>>) ELSE Ok(<<>>)
    ELSE IF end_reference < b.start_date THEN Ok(<<>>)
    ELSE IF b.end_date # None /\ start_reference > b.end_date THEN Ok(<<>>)
    ELSE LET last == IF b.end_date # None THEN Min(end_reference, b.end_date)
                     ELSE end_reference
         IN  instances_loop(b, b.start_date, start_reference, last, <<>>, 0)

(***************************************************************************)
(* models/cash_flow.py and models/envelope.py: the ledger of an envelope.  *)
(* A cash flow is a record [date, bill_id, amount]; amounts are in cents.  *)
(***************************************************************************)
is_inflow(cf) == cf.amount > 0
is_outflow(cf) == cf.amount < 0

RECURSIVE SumAmounts(_)
SumAmounts(cash_flows) ==
    IF cash_flows = <<>> THEN 0
    ELSE Head(cash_flows).amount + SumAmounts(Tail(cash_flows))

\* list.sort(key=lambda cf: cf.date): stable, so a flow goes after the flows
\* of the same date that precede it.
RECURSIVE sort_by_date(_)
sort_by_date(cash_flows) ==
    IF cash_flows = <<>> THEN <<>>
    ELSE LET n == Len(cash_flows)
             last == cash_flows[n]
             rest == sort_by_date(SubSeq(cash_flows, 1, n - 1))
         IN  SelectSeq(rest, LAMBDA cf : cf.date <= last.date)
             \o <<last>>
             \o SelectSeq(rest, LAMBDA cf : cf.date > last.date)

add_cash_flows_unsorted(schedule, cash_flows) == schedule \o cash_flows

add_cash_flows(schedule, cash_flows) == sort_by_date(schedule \o cash_flows)

cash_flows_in_range(schedule, start_date, end_date, exclude) ==
    IF exclude = "contributions"
    THEN SelectSeq(schedule, LAMBDA cf :
             start_date <= cf.date /\ cf.date <= end_date /\ ~is_inflow(cf))
    ELSE IF exclude = "payouts"
    THEN SelectSeq(schedule, LAMBDA cf :
             start_date <= cf.date /\ cf.date <= end_date /\ ~is_outflow(cf))
    ELSE SelectSeq(schedule, LAMBDA cf :
             start_date <= cf.date /\ cf.date <= end_date)

SeqDates(schedule) == { schedule[i].date : i \in 1..Len(schedule) }
MaxOf(S) == CHOOSE x \in S : \A y \in S : y <= x
MinOf(S) == CHOOSE x \in S : \A y \in S : x <= y

total_amount_as_of_date(schedule, as_of_date, exclude) ==
    IF Len(schedule) = 0 \/ as_of_date > MaxOf(SeqDates(schedule))
    THEN 0
    ELSE SumAmounts(cash_flows_in_range(schedule, MinOf(SeqDates(schedule)),
                                        as_of_date, exclude))

get_balance_as_of_date(e, as_of_date, exclude) ==
    e.initial_allocation + total_amount_as_of_date(e.schedule, as_of_date, exclude)

(***************************************************************************)
(* schedules/indep_scheduler.py.  The scheduler reads envelope.bill,       *)
(* envelope.interval and envelope.remaining and assigns envelope.schedule. *)
(* An envelope is a record [cls, bill, allocated, remaining, interval,     *)
(* schedule].  cls = "Envelope" is an instance of models/envelope.py's     *)
(* class, which has bill_instance, contrib_interval and a remaining()      *)
(* method but no attribute bill; cls = "attrs" is an object that carries   *)
(* the attributes the scheduler reads, as the allocators assign them       *)
(* (remaining = bill.amount_due - allocated).                              *)
(***************************************************************************)
\* round(n / d, 2) in cents. Exactly half a cent goes up or down: Decimal
\* rounds half to even, a float rounds by its binary representation.
RoundDiv(n, d, half_up) ==
    LET q == n \div d
        r == n % d
    IN  IF 2 * r < d THEN q
        ELSE IF 2 * r > d THEN q + 1
        ELSE IF half_up THEN q + 1 ELSE q

\* IndependentScheduler.daily_contribution
daily_contribution(remaining, due_date, curr_date, half_up) ==
    LET days_remaining == Max(0, DaysBetween(due_date, curr_date))
    IN  IF days_remaining = 0 THEN remaining
        ELSE RoundDiv(remaining, days_remaining, half_up)

\* Python's n // d and n % d for d # 0: the quotient is rounded towards
\* minus infinity and the remainder has the sign of the divisor.
FloorDiv(n, d) == IF d > 0 THEN n \div d ELSE (0 - n) \div (0 - d)
PyMod(n, d) == n - d * FloorDiv(n, d)

\* IndependentScheduler.calculate_intervals; a list times a negative number
\* is the empty list.
calculate_intervals(start_date, end_date, interval) ==
    IF interval = None THEN Raise("TypeError")
    ELSE IF interval = 0 THEN Raise("ZeroDivisionError")
    ELSE LET num_days == DaysBetween(end_date, start_date)
             full_intervals == FloorDiv(num_days, interval)
             remaining_days == PyMod(num_days, interval)
             intervals == [k \in 1..full_intervals |-> interval]
         IN  Ok(IF remaining_days > 0 THEN Append(intervals, remaining_days)
                ELSE intervals)

RECURSIVE SumContrib(_)
SumContrib(interval_contrib) ==
    IF interval_contrib = <<>> THEN 0
    ELSE Head(interval_contrib)[2] + SumContrib(Tail(interval_contrib))

\* The loop over interval_contrib in schedule: i counts from 1 here.
RECURSIVE contribution_loop(_, _, _, _, _, _)
contribution_loop(interval_contrib, i, current_date, diff, bill_id, cash_flows) ==
    IF i > Len(interval_contrib) THEN cash_flows
    ELSE LET days == interval_contrib[i][1]
             amount == interval_contrib[i][2] + (IF i = 1 THEN diff ELSE 0)
             next_date == IF i > 1 THEN AddDays(current_date, days)
                          ELSE current_date
         IN  IF amount = 0
             THEN contribution_loop(interval_contrib, i + 1, current_date, diff,
                                    bill_id, cash_flows)
             ELSE contribution_loop(interval_contrib, i + 1, next_date, diff,
                      bill_id,
                      Append(cash_flows, [date |-> next_date, bill_id |-> bill_id,
                                          amount |-> amount]))

\* The end of the loop body: the contributions and the payout that are
\* assigned to envelope.schedule.
schedule_cash_flows(envelope, start_date, due_date, interval_contrib) ==
    Ok(Append(contribution_loop(interval_contrib, 1, start_date,
                  envelope.remaining - SumContrib(interval_contrib),
                  envelope.bill.bill_id, <<>>),
              [date |-> due_date, bill_id |-> envelope.bill.bill_id,
               amount |-> 0 - envelope.bill.amount_due]))

\* The loop body from the intervals on.
schedule_intervals(envelope, start_date, due_date, intervals, daily_contrib) ==
    IF intervals.status # "ok" THEN Raise(intervals.status)
    ELSE The({ schedule_cash_flows(envelope, start_date, due_date,
                                   interval_contrib) :
               interval_contrib \in
                   {[k \in 1..Len(intervals.value) |->
                       <<intervals.value[k],
                         intervals.value[k] * daily_contrib>>]} })

\* The loop body from the next instance on: bill_due is what next_instance
\* returned or raised.
schedule_instance(envelope, start_date, half_up, bill_due) ==
    IF bill_due.status # "ok" THEN Raise(bill_due.status)
    ELSE IF bill_due.value = None THEN [status |-> "skip", value |-> None]
    ELSE The({ schedule_intervals(envelope, start_date, bill_due.value, intervals,
                                  daily_contrib) :
               intervals \in {calculate_intervals(start_date, bill_due.value,
                                                  envelope.interval)},
               daily_contrib \in {daily_contribution(envelope.remaining,
                                      bill_due.value, start_date, half_up)} })

\* The body of the loop over envelopes in schedule, for one envelope: the
\* list assigned to envelope.schedule, "skip" when there is no next
\* instance, or the exception raised.
schedule_envelope(envelope, start_date, half_up) ==
    IF envelope.cls = "Envelope" THEN Raise("AttributeError")
    ELSE The({ schedule_instance(envelope, start_date, half_up, bill_due) :
               bill_due \in {next_instance(envelope.bill, start_date, FALSE)} })

\* envelope.schedule = cash_flows, with the mistake of adding to the list
\* the envelope already holds.
set_schedule_extended(envelope, cash_flows) ==
    [envelope EXCEPT !.schedule = @ \o cash_flows]

\* envelope.schedule = cash_flows
set_schedule(envelope, cash_flows) ==
    [envelope EXCEPT !.schedule = cash_flows]

\* What schedule does once envelope i is handled with outcome r.
RECURSIVE IndependentScheduler_schedule(_, _, _, _, _)
schedule_next(envs, i, start_date, half_up, scheduled, r) ==
    IF r.status = "skip"
    THEN IndependentScheduler_schedule(envs, i + 1, start_date, half_up,
                                       scheduled)
    ELSE IF r.status # "ok"
    THEN [status |-> r.status, envelopes |-> envs, scheduled |-> scheduled]
    ELSE IndependentScheduler_schedule(
             [envs EXCEPT ![i] = set_schedule(@, r.value)], i + 1, start_date,
             half_up, scheduled \cup {i})

\* IndependentScheduler.schedule from envelope i on: the envelopes as the call
\* leaves them, the indices whose schedule was assigned, and "ok" or the
\* exception that ended the call.
IndependentScheduler_schedule(envs, i, start_date, half_up, scheduled) ==
    IF i > Len(envs)
    THEN [status |-> "ok", envelopes |-> envs, scheduled |-> scheduled]
    ELSE The({ schedule_next(envs, i, start_date, half_up, scheduled, r) :
               r \in {schedule_envelope(envs[i], start_date, half_up)} })

(***************************************************************************)
(* schedules/lp_scheduler.py.  A bill instance is a record [bill_id,       *)
(* due_date, amount_due].  The variables x[i, t] of the linear program are *)
(* a sequence of rows, one per bill in due-date order, each a sequence of  *)
(* T daily amounts.  Amounts are whole units: the solver is modelled as    *)
(* returning any assignment of whole units that satisfies the constraints  *)
(* and has the least objective among them.                                 *)
(***************************************************************************)
\* sorted(bills, key=lambda x: x.due_date): stable.
RECURSIVE sorted_by_due_date(_)
sorted_by_due_date(bills) ==
    IF bills = <<>> THEN <<>>
    ELSE LET n == Len(bills)
             last == bills[n]
             rest == sorted_by_due_date(SubSeq(bills, 1, n - 1))
         IN  SelectSeq(rest, LAMBDA b : b.due_date <= last.due_date)
             \o <<last>>
             \o SelectSeq(rest, LAMBDA b : b.due_date > last.due_date)

\* The sequences of d amounts >= 0 (lowBound=0) that sum to a.
RECURSIVE Compositions(_, _)
Compositions(a, d) ==
    IF d <= 0 THEN (IF a = 0 THEN {<<>>} ELSE {})
    ELSE UNION { { <<v>> \o rest : rest \in Compositions(a - v, d - 1) } :
                 v \in 0..a }

\* A plausible slip: the funding constraint is left out, only the bounds and
\* the zeros from the due day on remain.
bill_rows_unfunded(amount_due, days_until_due, T) ==
    { c \o [t \in 1..(T - days_until_due) |-> 0] :
        c \in UNION { Compositions(a, days_until_due) : a \in 0..amount_due } }

\* The rows x[i, .] the constraints of one bill allow: the days before the
\* due day sum to amount_due, the days from the due day on are 0.
bill_rows(amount_due, days_until_due, T) ==
    { c \o [t \in 1..(T - days_until_due) |-> 0] :
        c \in Compositions(amount_due, days_until_due) }

\* The assignments x the constraints of all the bills allow.
RECURSIVE feasible_x(_, _, _)
feasible_x(bills, start_date, T) ==
    IF bills = <<>> THEN {<<>>}
    ELSE LET n == Len(bills)
             rows == bill_rows(bills[n].amount_due,
                               DaysBetween(bills[n].due_date, start_date), T)
         IN  { Append(x, row) : x \in feasible_x(SubSeq(bills, 1, n - 1),
                                                 start_date, T),
                                row \in rows }

RECURSIVE SumSeq(_)
SumSeq(seq) == IF seq = <<>> THEN 0 ELSE Head(seq) + SumSeq(Tail(seq))

\* y[t], the total contributed on day t (days count from 1 here).
daily_total(x, t) == SumSeq([i \in 1..Len(x) |-> x[i][t]])

\* The values of z and w the constraints allow for x: both at least 0,
\* z >= y[t] and w <= y[t] for every day t. Values of z above the sum of all
\* contributions add nothing to the least of the objective.
bounds_zw(x, T) ==
    LET total == SumSeq([t \in 1..T |-> daily_total(x, t)])
    IN  { zw \in (0..total) \X (0..total) :
            \A t \in 1..T : zw[1] >= daily_total(x, t) /\ zw[2] <= daily_total(x, t) }

\* The objective with the mistake of leaving out w: the least z.
objective_z_only(x, T) == MinOf({ zw[1] : zw \in bounds_zw(x, T) })

\* The objective z - w at its least for x.
objective(x, T) == MinOf({ zw[1] - zw[2] : zw \in bounds_zw(x, T) })

\* pulp.LpStatus: the statuses the solver reports.
LpStatus == {"Not Solved", "Optimal", "Infeasible", "Unbounded", "Undefined"}

\* The check of the reported status after model.solve, with the mistake of
\* going on whatever the status.
check_status_ignored(reported, solution) == solution

\* The check of the reported status after model.solve: ValueError unless it
\* is Optimal.
check_status(reported, solution) ==
    IF reported # "Optimal"
    THEN [status |-> "ValueError", reported |-> reported]
    ELSE solution

\* The outcomes of model.solve and of the check that follows. The status is
\* the report of the external solver: Optimal with an assignment among
\* feasible that has the least objective, or one of the other statuses;
\* Infeasible when there is no assignment.
solve(sorted, T, feasible) ==
    IF feasible = {} \/ T <= 0
    THEN {[status |-> "ValueError", reported |-> "Infeasible"]}
    ELSE UNION {
        { check_status(reported,
              [status |-> "Optimal", reported |-> reported, bills |-> sorted,
               T |-> T, x |-> x,
               keys |-> { sorted[i].bill_id : i \in 1..Len(sorted) }]) :
            x \in { f \in feasible : objective(f, T) = best },
            reported \in LpStatus } :
        best \in {MinOf({ objective(x, T) : x \in feasible })} }

\* optimize_contributions once the bills are sorted by due date.
optimize_sorted(sorted, start_date, T) ==
    UNION { solve(sorted, T, feasible) :
            feasible \in {feasible_x(sorted, start_date, T)} }

\* LPScheduler.optimize_contributions: the outcomes of the call, each the
\* sorted bills, T and the x of an optimal solution, or the exception raised.
optimize_contributions(bills, start_date) ==
    IF bills = <<>> THEN {[status |-> "IndexError"]}
    ELSE UNION { optimize_sorted(sorted, start_date,
                     DaysBetween(sorted[Len(sorted)].due_date, start_date)) :
                 sorted \in {sorted_by_due_date(bills)} }

\* The first loop of LPScheduler.schedule: the next instances of the
\* envelopes' bills, without the envelopes that have none.
RECURSIVE collect_bills(_, _, _, _)
collect_next(envs, i, start_date, bills, due) ==
    IF due.status # "ok" THEN Raise(due.status)
    ELSE IF due.value = None
    THEN collect_bills(envs, i + 1, start_date, bills)
    ELSE collect_bills(envs, i + 1, start_date,
             Append(bills, [bill_id |-> envs[i].bill.bill_id,
                            due_date |-> due.value,
                            amount_due |-> envs[i].bill.amount_due]))

collect_bills(envs, i, start_date, bills) ==
    IF i > Len(envs) THEN Ok(bills)
    ELSE IF envs[i].cls = "Envelope" THEN Raise("AttributeError")
    ELSE The({ collect_next(envs, i, start_date, bills, due) :
               due \in {next_instance(envs[i].bill, start_date, FALSE)} })

\* The second loop of LPScheduler.schedule, entered with the solver's
\* result: the look-up by bill_id raises KeyError for an envelope that had no
\* next instance, and aggregate_cash_flows is called with a keyword it does
\* not have (envelopes=), which raises TypeError. No envelope is assigned a
\* schedule.
aggregate_loop(envs, keys) ==
    IF envs = <<>> THEN "ok"
    ELSE IF envs[1].bill.bill_id \notin keys THEN "KeyError"
    ELSE "TypeError"

\* The result of optimize_contributions for bill_id: one cash flow per day of
\* the horizon with the value of x[i, t]. The dictionary is keyed by bill_id,
\* so the row of the last bill with that id is the one it holds.
opt_contrib(solved, start_date, bill_id) ==
    LET i == MaxOf({ j \in 1..Len(solved.bills) : solved.bills[j].bill_id = bill_id })
    IN  [t \in 1..solved.T |->
            [date |-> AddDays(start_date, t - 1), bill_id |-> bill_id,
             amount |-> solved.x[i][t]]]

\* The total of the cash flows that fall into interval int_idx.
interval_total(cash_flows, start_date, interval, int_idx) ==
    SumAmounts(SelectSeq(cash_flows, LAMBDA cf :
        FloorDiv(DaysBetween(cf.date, start_date), interval) = int_idx))

\* The cash flows aggregate_cash_flows returns, once int_contribs is known:
\* one per interval with a positive total, in order, dated date_of(int_idx).
\* Here with the mistake of dating it at the end of the interval.
aggregate_flows_at_end(cash_flows, start_date, interval, idxs) ==
    [k \in 1..Len(idxs) |->
        [date |-> AddDays(start_date, (idxs[k] + 1) * interval),
         bill_id |-> cash_flows[1].bill_id,
         amount |-> interval_total(cash_flows, start_date, interval, idxs[k])]]

\* The cash flows aggregate_cash_flows returns, once int_contribs is known:
\* one per interval with a positive total, in order, dated at the first day
\* of the interval. The totals are whole units, which round(., 2) keeps.
aggregate_flows(cash_flows, start_date, interval, idxs) ==
    [k \in 1..Len(idxs) |->
        [date |-> AddDays(start_date, idxs[k] * interval),
         bill_id |-> cash_flows[1].bill_id,
         amount |-> interval_total(cash_flows, start_date, interval, idxs[k])]]

\* LPScheduler.aggregate_cash_flows
aggregate_cash_flows(cash_flows, start_date, interval) ==
    IF cash_flows = <<>> THEN Raise("IndexError")
    ELSE IF interval = None THEN Raise("TypeError")
    ELSE IF interval = 0 THEN Raise("ZeroDivisionError")
    ELSE LET idx_of(k) == FloorDiv(DaysBetween(cash_flows[k].date, start_date),
                                   interval)
             present == { idx_of(k) : k \in 1..Len(cash_flows) }
             lo == MinOf(present)
             ordered == SelectSeq([j \in 1..(MaxOf(present) - lo + 1) |-> lo + j - 1],
                            LAMBDA x : x \in present /\
                                interval_total(cash_flows, start_date, interval, x) > 0)
         IN  Ok(aggregate_flows(cash_flows, start_date, interval, ordered))

(***************************************************************************)
(* The calendar: a date is drawn and increment_date is applied to it.      *)
(***************************************************************************)
\* The dates drawn: every day from 2023-11-01 to the end of the month
\* StartSpan months after February 2024 (month ends, a leap day, a year end).
StartDates ==
    { d \in MkDate(2023, 11, 1) .. MkDate(2024, 2 + StartSpan, 31) : IsDate(d) }

NoCall == [ref |-> None, frequency |-> "None", interval |-> None,
           num_intervals |-> None, status |-> "none", result |-> None]

IncrementDate(f, i, k) ==
    LET r == increment_date(date, f, i, k)
    IN  /\ call.status = "none"
        /\ call' = [ref |-> date, frequency |-> f, interval |-> i,
                    num_intervals |-> k, status |-> r.status, result |-> r.value]
        /\ date' = IF r.status = "ok" THEN r.value ELSE date
        /\ UNCHANGED <<args, bill, query, env, bal, envelopes, run, lp, threads, manager>>

(***************************************************************************)
(* Idle values of the parts a specification does not exercise.             *)
(***************************************************************************)
NoArgs == [bill_id |-> "", service |-> "", amount_due |-> 0,
           recurring |-> FALSE, due_date |-> None, start_date |-> None,
           end_date |-> None, frequency |-> "None", interval |-> None,
           occurrences |-> None]
NoBill == [status |-> "none", bill_id |-> "", service |-> "", amount_due |-> 0,
           recurring |-> FALSE, start_date |-> None, end_date |-> None,
           frequency |-> "None", interval |-> None, occurrences |-> None]
NoQuery == [op |-> "none"]
NoEnv == [initial_allocation |-> 0, schedule |-> <<>>, added |-> <<>>]
NoBal == [op |-> "none"]
NoRun == [op |-> "none"]
NoLp == [status |-> "none"]
NoThreads == [calls |-> <<>>]
NoManager == [cls |-> "none"]

InitDate ==
    /\ date \in StartDates
    /\ call = NoCall
    /\ args = NoArgs /\ bill = NoBill /\ query = NoQuery
    /\ env = NoEnv /\ bal = NoBal
    /\ envelopes = <<>> /\ run = NoRun /\ lp = NoLp /\ threads = NoThreads /\ manager = NoManager

NextDate ==
    \E f \in Frequencies \cup {"invalid"}, i \in 0..MaxInterval, k \in 0..MaxReps :
        IncrementDate(f, i, k)

SpecDate == InitDate /\ [][NextDate]_vars

(***************************************************************************)
(* The bill as a state machine: a Bill is constructed once, then queried.  *)
(* The queries change nothing of the bill, so one query per bill is        *)
(* followed.                                                               *)
(***************************************************************************)
\* First due dates: mid-month, a 31st and the leap day.
BillDates == {MkDate(2024, 1, 15), MkDate(2024, 1, 31), MkDate(2024, 2, 29)}
\* End dates: one before every start date, two after.
EndDates == {MkDate(2024, 1, 1), MkDate(2024, 1, 31), MkDate(2024, 3, 31)}
\* Reference dates of next_instance.
RefDates ==
    { MkDate(2024, 1, 1), MkDate(2024, 1, 15), MkDate(2024, 1, 31),
      MkDate(2024, 2, 15), MkDate(2024, 2, 29), MkDate(2024, 3, 31),
      MkDate(2024, 4, 30) }
\* Ends of the windows of instances_in_range.
WindowDates ==
    { MkDate(2024, 1, 1), MkDate(2024, 1, 31), MkDate(2024, 3, 1),
      MkDate(2024, 6, 30), MkDate(2028, 12, 31) }

\* Identifier, service and amount: all valid, or one of them invalid.
BillHeads ==
    { [bill_id |-> "rent", service |-> "Rent", amount_due |-> 1000],
      [bill_id |-> "", service |-> "Rent", amount_due |-> 1000],
      [bill_id |-> "rent", service |-> "", amount_due |-> 1000],
      [bill_id |-> "rent", service |-> "Rent", amount_due |-> 0] }

OneTimeArgs ==
    { [bill_id |-> h.bill_id, service |-> h.service, amount_due |-> h.amount_due,
       recurring |-> FALSE, due_date |-> d, start_date |-> None,
       end_date |-> None, frequency |-> "None", interval |-> None,
       occurrences |-> None] : h \in BillHeads, d \in BillDates }

RecurringArgs ==
    { [bill_id |-> h.bill_id, service |-> h.service, amount_due |-> h.amount_due,
       recurring |-> TRUE, due_date |-> None, start_date |-> x[1],
       end_date |-> x[2], frequency |-> x[3], interval |-> x[4],
       occurrences |-> x[5]] :
         h \in BillHeads,
         x \in BillDates \X (EndDates \cup {None})
                \X (Frequencies \cup {"invalid", "None"})
                \X ({None} \cup 0..MaxInterval)
                \X ({None} \cup 0..MaxOccurrences) }

NewBill(a) ==
    LET b == Bill__init__(a)
    IN  /\ bill.status = "none"
        /\ b.status # "steps"
        /\ args' = a
        /\ bill' = b
        /\ UNCHANGED <<date, call, query, env, bal, envelopes, run, lp, threads, manager>>

NextInstance(reference_date, inclusive) ==
    LET r == next_instance(bill, reference_date, inclusive)
    IN  /\ bill.status = "ok"
        /\ query.op = "none"
        /\ r.status # "steps"
        /\ query' = [op |-> "next_instance", reference_date |-> reference_date,
                     inclusive |-> inclusive, status |-> r.status,
                     result |-> r.value]
        /\ UNCHANGED <<date, call, args, bill, env, bal, envelopes, run, lp, threads, manager>>

InstancesInRange(start_reference, end_reference) ==
    LET r == instances_in_range(bill, start_reference, end_reference)
    IN  /\ bill.status = "ok"
        /\ query.op = "none"
        /\ r.status # "steps"
        /\ query' = [op |-> "instances_in_range",
                     start_reference |-> start_reference,
                     end_reference |-> end_reference, status |-> r.status,
                     instances |-> r.value]
        /\ UNCHANGED <<date, call, args, bill, env, bal, envelopes, run, lp, threads, manager>>

InitBill ==
    /\ date = None /\ call = NoCall
    /\ args = NoArgs /\ bill = NoBill /\ query = NoQuery
    /\ env = NoEnv /\ bal = NoBal
    /\ envelopes = <<>> /\ run = NoRun /\ lp = NoLp /\ threads = NoThreads /\ manager = NoManager

NextBill ==
    \/ \E a \in OneTimeArgs \cup RecurringArgs : NewBill(a)
    \/ \E r \in RefDates, inclusive \in BOOLEAN : NextInstance(r, inclusive)
    \/ \E s \in WindowDates, e \in WindowDates : InstancesInRange(s, e)

SpecBill == InitBill /\ [][NextBill]_vars

(***************************************************************************)
(* The ledger as a state machine: an envelope is constructed with an       *)
(* initial allocation and an empty ledger, cash flows are added one at a   *)
(* time or in batches, and the balance is then read.                       *)
(***************************************************************************)
LedgerDates == {MkDate(2024, 1, 15), MkDate(2024, 1, 29), MkDate(2024, 2, 1)}
AsOfDates == LedgerDates \cup {MkDate(2024, 1, 10), MkDate(2024, 2, 15)}
LedgerAmounts == {3000, -6000}
Allocations == {0, 2500}
Excludes == {"None", "contributions", "payouts"}
CashFlows ==
    { [date |-> d, bill_id |-> "rent", amount |-> m] :
        d \in LedgerDates, m \in LedgerAmounts }

\* The ledger of the envelope, and in added the transactions passed to
\* add_cash_flows so far, in the order of the calls.
AddCashFlow(cf) ==
    /\ bal.op = "none"
    /\ Len(env.schedule) < MaxLedger
    /\ env' = [env EXCEPT !.schedule = add_cash_flows(@, <<cf>>),
                          !.added = Append(@, cf)]
    /\ UNCHANGED <<date, call, args, bill, query, bal, envelopes, run, lp, threads, manager>>

AddCashFlows(cash_flows) ==
    /\ bal.op = "none"
    /\ Len(env.schedule) + Len(cash_flows) <= MaxLedger
    /\ env' = [env EXCEPT !.schedule = add_cash_flows(@, cash_flows),
                          !.added = @ \o cash_flows]
    /\ UNCHANGED <<date, call, args, bill, query, bal, envelopes, run, lp, threads, manager>>

GetBalance(as_of_date, exclude) ==
    /\ bal.op = "none"
    /\ bal' = [op |-> "get_balance_as_of_date", as_of_date |-> as_of_date,
               exclude |-> exclude,
               result |-> get_balance_as_of_date(env, as_of_date, exclude)]
    /\ UNCHANGED <<date, call, args, bill, query, env, envelopes, run, lp, threads, manager>>

\* The attributes of a CashFlowSchedule object: its list and its methods.
CashFlowScheduleAttrs ==
    {"cash_flows", "add_cash_flows", "total_amount_as_of_date",
     "total_amount_in_range", "cash_flow_dates_in_range",
     "cash_flows_in_range", "__len__", "__iter__"}

\* self.schedule = schedule.copy(): the attribute is looked up first.
set_cash_flow_schedule(envelope, schedule) ==
    IF "copy" \in CashFlowScheduleAttrs
    THEN [status |-> "ok", env |-> [envelope EXCEPT !.schedule = schedule]]
    ELSE [status |-> "AttributeError", env |-> envelope]

\* The ledgers handed to set_cash_flow_schedule: built by add_cash_flows.
NewLedgers ==
    {<<>>} \cup { add_cash_flows(<<>>, <<c>>) : c \in CashFlows }
           \cup { add_cash_flows(<<>>, <<c1, c2>>) : c1 \in CashFlows, c2 \in CashFlows }

SetCashFlowSchedule(new_ledger) ==
    /\ bal.op = "none"
    /\ \E r \in {set_cash_flow_schedule(env, new_ledger)} :
          /\ env' = r.env
          /\ bal' = [op |-> "set_cash_flow_schedule", new_ledger |-> new_ledger,
                     status |-> r.status]
    /\ UNCHANGED <<date, call, args, bill, query, envelopes, run, lp, threads, manager>>

InitLedger ==
    /\ date = None /\ call = NoCall
    /\ args = NoArgs /\ bill = NoBill /\ query = NoQuery
    /\ env \in { [initial_allocation |-> a, schedule |-> <<>>, added |-> <<>>] :
                    a \in Allocations }
    /\ bal = NoBal
    /\ envelopes = <<>> /\ run = NoRun /\ lp = NoLp /\ threads = NoThreads /\ manager = NoManager

NextLedger ==
    \/ \E cf \in CashFlows : AddCashFlow(cf)
    \/ \E c1, c2 \in CashFlows : AddCashFlows(<<c1, c2>>)
    \/ \E d \in AsOfDates, x \in Excludes : GetBalance(d, x)
    \/ \E l \in NewLedgers : SetCashFlowSchedule(l)

SpecLedger == InitLedger /\ [][NextLedger]_vars

(***************************************************************************)
(* The independent scheduler as a state machine: a list of envelopes is    *)
(* given and schedule is called on it once.                                *)
(***************************************************************************)
\* Bill amounts in cents: smaller than, near and far above the day counts.
TargetAmounts == {3, 5, 1000}
TargetAllocations == {0, 2}
\* Due dates: before the first start date, and 1, 5 and 7 days after it.
DueDates ==
    {MkDate(2023, 12, 31), MkDate(2024, 1, 2), MkDate(2024, 1, 6),
     MkDate(2024, 1, 8)}
ScheduleStarts == {MkDate(2024, 1, 1), MkDate(2024, 1, 3), MkDate(2024, 1, 6)}

OneTimeBill(amount, due) ==
    Bill__init__([bill_id |-> "rent", service |-> "Rent", amount_due |-> amount,
                  recurring |-> FALSE, due_date |-> due, start_date |-> None,
                  end_date |-> None, frequency |-> "None", interval |-> None,
                  occurrences |-> None])

MonthlyBill(amount, start) ==
    Bill__init__([bill_id |-> "gym", service |-> "Gym", amount_due |-> amount,
                  recurring |-> TRUE, due_date |-> None, start_date |-> start,
                  end_date |-> None, frequency |-> "monthly", interval |-> 1,
                  occurrences |-> None])

MkEnvelope(cls, b, allocated, interval) ==
    [cls |-> cls, bill |-> b, allocated |-> allocated,
     remaining |-> b.amount_due - allocated, interval |-> interval,
     schedule |-> <<>>]

FirstEnvelopes ==
    { MkEnvelope(c, OneTimeBill(a, d), al, i) :
        c \in {"Envelope", "attrs"}, a \in TargetAmounts, d \in DueDates,
        al \in TargetAllocations, i \in (0 - 1)..MaxContribInterval }

\* The envelopes that follow the first: one due before every start date, one
\* of the Envelope class, one of a monthly bill.
MoreEnvelopes ==
    { MkEnvelope("attrs", OneTimeBill(1000, MkDate(2023, 12, 31)), 0, 1),
      MkEnvelope("Envelope", OneTimeBill(1000, MkDate(2024, 1, 8)), 0, 1),
      MkEnvelope("attrs", MonthlyBill(1000, MkDate(2024, 1, 6)), 2, 2) }

RECURSIVE EnvelopeLists(_)
EnvelopeLists(n) ==
    IF n = 1 THEN { <<e>> : e \in FirstEnvelopes }
    ELSE EnvelopeLists(n - 1)
         \cup { Append(l, e) : l \in { x \in EnvelopeLists(n - 1) : Len(x) = n - 1 },
                               e \in MoreEnvelopes }

\* A call of schedule on the envelopes, the first or a later one. previous
\* holds the call before this one and the envelopes as it left them.
ScheduleIndependent(start_date, half_up) ==
    \E r \in {IndependentScheduler_schedule(envelopes, 1, start_date, half_up, {})} :
        /\ run.op = "none" \/ (run.op = "independent" /\ run.calls < MaxRuns)
        /\ envelopes' = r.envelopes
        /\ run' = [op |-> "independent", start_date |-> start_date,
                   half_up |-> half_up,
                   status |-> r.status, scheduled |-> r.scheduled,
                   calls |-> IF run.op = "none" THEN 1 ELSE run.calls + 1,
                   previous |-> IF run.op = "none" THEN <<>>
                                ELSE <<[start_date |-> run.start_date,
                                        half_up |-> run.half_up,
                                        status |-> run.status,
                                        envelopes |-> envelopes]>>]
        /\ UNCHANGED <<date, call, args, bill, query, env, bal, lp, threads, manager>>

InitIndep ==
    /\ date = None /\ call = NoCall
    /\ args = NoArgs /\ bill = NoBill /\ query = NoQuery
    /\ env = NoEnv /\ bal = NoBal
    /\ envelopes \in EnvelopeLists(MaxEnvelopes)
    /\ run = NoRun /\ lp = NoLp /\ threads = NoThreads /\ manager = NoManager

NextIndep ==
    \E s \in ScheduleStarts, half_up \in BOOLEAN : ScheduleIndependent(s, half_up)

SpecIndep == InitIndep /\ [][NextIndep]_vars

(***************************************************************************)
(* The global scheduler as a state machine: a list of envelopes is given   *)
(* and schedule is called on it once.  lp holds the solver's outcome.      *)
(***************************************************************************)
LpDueDates == {MkDate(2023, 12, 31), MkDate(2024, 1, 3), MkDate(2024, 1, 4)}
LpStarts == {MkDate(2024, 1, 1), MkDate(2024, 1, 2)}

LpBill(id, amount, due) ==
    Bill__init__([bill_id |-> id, service |-> "Service", amount_due |-> amount,
                  recurring |-> FALSE, due_date |-> due, start_date |-> None,
                  end_date |-> None, frequency |-> "None", interval |-> None,
                  occurrences |-> None])

LpEnvelopes(id) ==
    { MkEnvelope(c, LpBill(id, a, d), 0, 1) :
        c \in {"attrs"}, a \in 1..MaxAmount, d \in LpDueDates }
    \cup { MkEnvelope("Envelope", LpBill(id, 1, MkDate(2024, 1, 3)), 0, 1) }

LpEnvelopeLists ==
    {<<>>} \cup { <<e>> : e \in LpEnvelopes("rent") }
           \cup { <<e, f>> : e \in LpEnvelopes("rent"),
                             f \in LpEnvelopes("rent") \cup LpEnvelopes("gym") }

ScheduleLP(start_date) ==
    /\ run.op = "none"
    /\ \E bills \in {collect_bills(envelopes, 1, start_date, <<>>)} :
          IF bills.status # "ok"
          THEN /\ run' = [op |-> "lp", start_date |-> start_date,
                          status |-> bills.status, scheduled |-> {}]
               /\ lp' = lp
          ELSE \E solved \in optimize_contributions(bills.value, start_date) :
                  /\ lp' = solved
                  /\ run' = [op |-> "lp", start_date |-> start_date,
                             status |-> IF solved.status # "Optimal"
                                        THEN solved.status
                                        ELSE aggregate_loop(envelopes,
                                                            solved.keys),
                             scheduled |-> {}]
    /\ UNCHANGED <<date, call, args, bill, query, env, bal, envelopes, threads, manager>>

\* A call of aggregate_cash_flows on the cash flows the solver returned for
\* a bill, with a contribution interval.
AggregateCashFlows(bill_id, interval) ==
    /\ run.op = "lp" /\ lp.status = "Optimal"
    /\ bill_id \in lp.keys
    /\ \E r \in {aggregate_cash_flows(opt_contrib(lp, run.start_date, bill_id),
                                       run.start_date, interval)} :
          run' = [op |-> "aggregate_cash_flows", start_date |-> run.start_date,
                  bill_id |-> bill_id, interval |-> interval,
                  status |-> r.status, result |-> r.value]
    /\ UNCHANGED <<date, call, args, bill, query, env, bal, envelopes, lp, threads, manager>>

InitLP ==
    /\ date = None /\ call = NoCall
    /\ args = NoArgs /\ bill = NoBill /\ query = NoQuery
    /\ env = NoEnv /\ bal = NoBal
    /\ envelopes \in LpEnvelopeLists
    /\ run = NoRun /\ lp = NoLp /\ threads = NoThreads /\ manager = NoManager

NextLP ==
    \/ \E s \in LpStarts : ScheduleLP(s)
    \/ \E id \in {"rent", "gym"}, interval \in 1..MaxContribInterval :
          AggregateCashFlows(id, interval)

SpecLP == InitLP /\ [][NextLP]_vars

(***************************************************************************)
(* Two calls of IndependentScheduler.schedule running at once, each on its *)
(* own envelopes. A call is at the head of its loop over envelopes         *)
(* ("loop"), holds the next instance of the envelope's bill                *)
(* ("contribute"), or holds the cash flows it is about to assign           *)
(* ("assign"). bill and cash_flows are locals of the call: they live in    *)
(* the frame of the call.                                                  *)
(***************************************************************************)
Calls == {1, 2}
ConcStarts == {MkDate(2024, 1, 1), MkDate(2024, 1, 3)}
ConcEnvelopes ==
    { MkEnvelope("attrs", OneTimeBill(3, d), 0, i) :
        d \in {MkDate(2023, 12, 31), MkDate(2024, 1, 2), MkDate(2024, 1, 6)},
        i \in {0, 2} }

\* The frame that holds the locals of a call, with the mistake of one frame
\* for all calls.
frame_of_shared(c) == 1

\* The frame that holds the locals of a call: every call has its own.
frame_of(c) == c

TargetOf(c) == envelopes[threads.calls[c].targets[threads.calls[c].i]]

\* Whether a step of call c falls between two steps of the other call.
Overlaps(c) ==
    \E o \in Calls \ {c} :
        /\ threads.calls[o].pc # "done"
        /\ threads.calls[o].pc # "loop" \/ threads.calls[o].i > 1

Finish(c, status) ==
    [threads EXCEPT !.calls[c].pc = "done", !.calls[c].status = status,
                    !.interleaved = @ \/ Overlaps(c)]

\* for envelope in envelopes: bill = envelope.bill.next_instance(...), and
\* continue when there is none.
NextEnvelope(c) ==
    /\ threads.calls # <<>>
    /\ threads.calls[c].pc = "loop"
    /\ IF threads.calls[c].i > Len(threads.calls[c].targets)
       THEN threads' = Finish(c, "ok")
       ELSE \E bill_due \in {next_instance(TargetOf(c).bill,
                                           threads.calls[c].start_date, FALSE)} :
               IF bill_due.status # "ok"
               THEN threads' = Finish(c, bill_due.status)
               ELSE IF bill_due.value = None
               THEN threads' = [threads EXCEPT
                        !.calls[c].i = @ + 1,
                        !.interleaved = @ \/ Overlaps(c)]
               ELSE threads' = [threads EXCEPT
                        !.calls[c].pc = "contribute",
                        !.frames[frame_of(c)].bill_due = bill_due.value,
                        !.interleaved = @ \/ Overlaps(c)]
    /\ UNCHANGED <<date, call, args, bill, query, env, bal, envelopes, run, lp, manager>>

\* From calculate_intervals to the append of the payout: the list cash_flows.
Contribute(c) ==
    /\ threads.calls # <<>>
    /\ threads.calls[c].pc = "contribute"
    /\ \E r \in {schedule_instance(TargetOf(c), threads.calls[c].start_date,
                     threads.calls[c].half_up,
                     Ok(threads.frames[frame_of(c)].bill_due))} :
          IF r.status # "ok"
          THEN threads' = Finish(c, r.status)
          ELSE threads' = [threads EXCEPT
                   !.calls[c].pc = "assign",
                   !.frames[frame_of(c)].cash_flows = r.value,
                   !.interleaved = @ \/ Overlaps(c)]
    /\ UNCHANGED <<date, call, args, bill, query, env, bal, envelopes, run, lp, manager>>

\* envelope.schedule = cash_flows, and on to the next envelope.
Assign(c) ==
    /\ threads.calls # <<>>
    /\ threads.calls[c].pc = "assign"
    /\ envelopes' = [envelopes EXCEPT
           ![threads.calls[c].targets[threads.calls[c].i]] =
               set_schedule(@, threads.frames[frame_of(c)].cash_flows)]
    /\ threads' = [threads EXCEPT !.calls[c].pc = "loop",
                                  !.calls[c].i = @ + 1,
                                  !.interleaved = @ \/ Overlaps(c)]
    /\ UNCHANGED <<date, call, args, bill, query, env, bal, run, lp, manager>>

\* The call as it starts: given is the list of envelopes it was passed, the
\* envelopes at targets.
NewCall(targets, given, start_date, half_up) ==
    [pc |-> "loop", i |-> 1, targets |-> targets, given |-> given,
     start_date |-> start_date, half_up |-> half_up, status |-> "running"]

NoFrame == [bill_due |-> None, cash_flows |-> <<>>]

InitConc ==
    /\ date = None /\ call = NoCall
    /\ args = NoArgs /\ bill = NoBill /\ query = NoQuery
    /\ env = NoEnv /\ bal = NoBal
    /\ envelopes \in { <<e, f, g>> : e \in ConcEnvelopes, f \in ConcEnvelopes,
                                     g \in ConcEnvelopes }
    /\ run = NoRun /\ lp = NoLp /\ manager = NoManager
    /\ \E s1 \in ConcStarts, s2 \in ConcStarts, half_up \in BOOLEAN :
          threads = [calls |-> <<NewCall(<<1, 2>>, SubSeq(envelopes, 1, 2),
                                         s1, half_up),
                                 NewCall(<<3>>, SubSeq(envelopes, 3, 3),
                                         s2, half_up)>>,
                     frames |-> <<NoFrame, NoFrame>>,
                     interleaved |-> FALSE]

NextConc ==
    \E c \in Calls : NextEnvelope(c) \/ Contribute(c) \/ Assign(c)

SpecConc == InitConc /\ [][NextConc]_vars

(***************************************************************************)
(* managers/bill_manager.py: a BillManager holds the list bills. A bill is *)
(* its bill_id and its amount, so that two bills with one id can differ.   *)
(* manager.last is the last call: its argument, the list before it and its *)
(* outcome.                                                                *)
(***************************************************************************)
_bill_exists(bills, bill_id) ==
    \E k \in 1..Len(bills) : bills[k].bill_id = bill_id

\* BillManager._validate_no_duplicate_bills: every candidate is looked up in
\* the bills the manager holds.
_validate_no_duplicate_bills(bills, bills_to_add) ==
    IF \E k \in 1..Len(bills_to_add) : _bill_exists(bills, bills_to_add[k].bill_id)
    THEN Raise("ValueError")
    ELSE Ok(None)

\* BillManager.add_bills: the list the manager holds after the call, and the
\* outcome. source is a Bill, a list of Bills or something else.
add_bills(bills, source) ==
    IF source.kind \notin {"Bill", "list"}
    THEN [status |-> "TypeError", bills |-> bills]
    ELSE IF source.bills = <<>> THEN [status |-> "ok", bills |-> bills]
    ELSE IF _validate_no_duplicate_bills(bills, source.bills).status # "ok"
    THEN [status |-> "ValueError", bills |-> bills]
    ELSE [status |-> "ok", bills |-> bills \o source.bills]

\* BillManager.remove_bill
remove_bill(bills, bill_id) ==
    IF ~_bill_exists(bills, bill_id)
    THEN [status |-> "ValueError", bills |-> bills]
    ELSE [status |-> "ok",
          bills |-> SelectSeq(bills, LAMBDA b : b.bill_id # bill_id)]

\* BillManager.create_bills on a list of records: the bills are constructed
\* and returned, the manager's list is not touched.
create_bills(bills, source) ==
    IF source.kind # "list"
    THEN [status |-> "ValueError", bills |-> bills, value |-> <<>>]
    ELSE [status |-> "ok", bills |-> bills, value |-> source.bills]

ManagedBills == { [bill_id |-> id, amount_due |-> a] : id \in {"rent", "gym"},
                                                        a \in {1000, 2000} }
BillSources ==
    { [kind |-> "Bill", bills |-> <<b>>] : b \in ManagedBills }
    \cup { [kind |-> "list", bills |-> l] :
             l \in {<<>>} \cup { <<b, c>> : b \in ManagedBills, c \in ManagedBills } }
    \cup { [kind |-> "str", bills |-> <<>>] }

\* A call on the manager with outcome r.
ManagerCall(op, arg, r) ==
    /\ manager.cls = "BillManager"
    /\ Len(r.bills) <= MaxBills
    /\ manager' = [cls |-> "BillManager", bills |-> r.bills,
                   last |-> [op |-> op, arg |-> arg, before |-> manager.bills,
                             status |-> r.status]]
    /\ UNCHANGED <<date, call, args, bill, query, env, bal, envelopes, run, lp, threads>>

AddBills(source) ==
    ManagerCall("add_bills", source, add_bills(manager.bills, source))

RemoveBill(bill_id) ==
    ManagerCall("remove_bill", bill_id, remove_bill(manager.bills, bill_id))

CreateBills(source) ==
    ManagerCall("create_bills", source, create_bills(manager.bills, source))

InitBills ==
    /\ date = None /\ call = NoCall
    /\ args = NoArgs /\ bill = NoBill /\ query = NoQuery
    /\ env = NoEnv /\ bal = NoBal
    /\ envelopes = <<>> /\ run = NoRun /\ lp = NoLp /\ threads = NoThreads
    /\ manager = [cls |-> "BillManager", bills |-> <<>>, last |-> [op |-> "none"]]

NextBills ==
    \/ \E source \in BillSources : AddBills(source)
    \/ \E id \in {"rent", "gym"} : RemoveBill(id)
    \/ \E source \in BillSources : CreateBills(source)

SpecBills == InitBills /\ [][NextBills]_vars

(***************************************************************************)
(* managers/envelope_manager.py: an EnvelopeManager holds the list         *)
(* envelopes of models/envelope.py's Envelope objects. manager.last is the *)
(* last call and its outcome.                                              *)
(***************************************************************************)
\* Envelope.__init__
Envelope__init__(bill_instance, initial_allocation, start_contrib_date, end_contrib_date, contrib_interval) ==
    IF (IF initial_allocation = None THEN 0 ELSE initial_allocation) < 0
    THEN Raise("ValueError")
    ELSE IF start_contrib_date # None /\ end_contrib_date # None
            /\ end_contrib_date < start_contrib_date
    THEN Raise("ValueError")
    ELSE Ok([bill_instance |-> bill_instance,
             initial_allocation |->
                 IF initial_allocation = None THEN 0 ELSE initial_allocation,
             start_contrib_date |-> start_contrib_date,
             end_contrib_date |-> end_contrib_date,
             contrib_interval |-> contrib_interval,
             schedule |-> <<>>])

\* Envelope.is_fully_funded with an as_of_date
is_fully_funded(e, as_of_date) ==
    get_balance_as_of_date(e, as_of_date, None) >= e.bill_instance.amount_due

_envelope_exists(envs, bill_id, due_date) ==
    \E k \in 1..Len(envs) : /\ envs[k].bill_instance.bill_id = bill_id
                            /\ envs[k].bill_instance.due_date = due_date

\* EnvelopeManager._validate_no_duplicate_envelopes: every candidate is
\* looked up in the envelopes the manager holds.
_validate_no_duplicate_envelopes(envs, envelopes_to_add) ==
    IF \E k \in 1..Len(envelopes_to_add) :
           _envelope_exists(envs, envelopes_to_add[k].bill_instance.bill_id,
                            envelopes_to_add[k].bill_instance.due_date)
    THEN Raise("ValueError")
    ELSE Ok(None)

\* EnvelopeManager.add_envelopes
add_envelopes(envs, source) ==
    IF source.kind \notin {"Envelope", "list"}
    THEN [status |-> "TypeError", envelopes |-> envs]
    ELSE IF source.envelopes = <<>> THEN [status |-> "ok", envelopes |-> envs]
    ELSE IF _validate_no_duplicate_envelopes(envs, source.envelopes).status # "ok"
    THEN [status |-> "ValueError", envelopes |-> envs]
    ELSE [status |-> "ok", envelopes |-> envs \o source.envelopes]

\* sorted(..., key=lambda e: e.bill_instance.due_date) on the positions idxs
\* of the manager's list: a stable sort.
RECURSIVE sorted_by_instance_due_date(_, _)
sorted_by_instance_due_date(envs, idxs) ==
    IF idxs = <<>> THEN <<>>
    ELSE The({ SelectSeq(rest, LAMBDA k : envs[k].bill_instance.due_date
                                            <= envs[idxs[Len(idxs)]].bill_instance.due_date)
               \o <<idxs[Len(idxs)]>>
               \o SelectSeq(rest, LAMBDA k : envs[k].bill_instance.due_date
                                               > envs[idxs[Len(idxs)]].bill_instance.due_date)
               : rest \in {sorted_by_instance_due_date(envs, SubSeq(idxs, 1, Len(idxs) - 1))} })

\* A plausible slip: the envelopes of a bill_id are taken in the order of the
\* manager's list.
group_of_unsorted(envs, bill_id) ==
    SelectSeq([k \in 1..Len(envs) |-> k],
              LAMBDA k : envs[k].bill_instance.bill_id = bill_id)

\* The positions of the envelopes of bill_id, in due-date order.
group_of(envs, bill_id) ==
    sorted_by_instance_due_date(envs,
        SelectSeq([k \in 1..Len(envs) |-> k],
                  LAMBDA k : envs[k].bill_instance.bill_id = bill_id))

\* The while loop of set_contrib_dates: from curr_date in steps of
\* contrib_interval days to the first date after prev_due_date.
RECURSIVE first_date_after(_, _, _)
first_date_after(curr_date, prev_due_date, contrib_interval) ==
    IF curr_date <= prev_due_date
    THEN first_date_after(
             increment_date(curr_date, "daily", contrib_interval, 1).value,
             prev_due_date, contrib_interval)
    ELSE curr_date

\* The three assignments set_contrib_dates makes to an envelope.
set_dates(e, start, contrib_interval) ==
    [e EXCEPT !.start_contrib_date = start,
              !.end_contrib_date = e.bill_instance.due_date,
              !.contrib_interval = contrib_interval]

\* The envelope at position i after the loop over the bill_ids: pos is its
\* place in the group g of its bill_id.
sequenced(envs, g, pos, start_contrib_date, contrib_interval) ==
    set_dates(envs[g[pos]],
              IF pos = 1 THEN start_contrib_date
              ELSE first_date_after(start_contrib_date,
                                    envs[g[pos - 1]].bill_instance.due_date,
                                    contrib_interval),
              contrib_interval)

\* EnvelopeManager.set_contrib_dates with a start date.
set_contrib_dates(envs, start_contrib_date, contrib_interval) ==
    IF contrib_interval <= 0
    THEN [status |-> "ValueError", envelopes |-> envs]
    ELSE [status |-> "ok",
          envelopes |->
            [i \in 1..Len(envs) |->
               IF \E k \in 1..Len(envs) :
                     /\ envs[k].bill_instance.bill_id = envs[i].bill_instance.bill_id
                     /\ ~is_fully_funded(envs[k], start_contrib_date)
               THEN The({ sequenced(envs, g,
                                    CHOOSE pos \in 1..Len(g) : g[pos] = i,
                                    start_contrib_date, contrib_interval)
                          : g \in {group_of(envs, envs[i].bill_instance.bill_id)} })
               ELSE set_dates(envs[i], start_contrib_date, contrib_interval)]]

ManagedDueDates == {MkDate(2024, 1, 5), MkDate(2024, 1, 10), MkDate(2024, 1, 20)}
ContribStarts == {MkDate(2024, 1, 1), MkDate(2024, 1, 8)}
ContribIntervals == {0, MaxContribInterval, 14}

\* The envelopes handed to the manager: constructed, without dates. Those of
\* the recurring bill "rent" are empty or hold the amount of the bill.
ManagedEnvelopes ==
    { Envelope__init__([bill_id |-> "rent", due_date |-> d, amount_due |-> 1000],
                       al, None, None, None).value :
        d \in ManagedDueDates, al \in {None, 1000} }
    \cup { Envelope__init__([bill_id |-> "gym", due_date |-> MkDate(2024, 1, 10),
                             amount_due |-> 1000], None, None, None, None).value }

EnvelopeSources ==
    { [kind |-> "Envelope", envelopes |-> <<e>>] : e \in ManagedEnvelopes }
    \cup { [kind |-> "list", envelopes |-> l] :
             l \in {<<>>} \cup { <<e, f>> : e \in ManagedEnvelopes,
                                            f \in ManagedEnvelopes } }
    \cup { [kind |-> "str", envelopes |-> <<>>] }

AddEnvelopes(source) ==
    /\ manager.cls = "EnvelopeManager"
    /\ \E r \in {add_envelopes(manager.envelopes, source)} :
         /\ Len(r.envelopes) <= MaxManaged
         /\ manager' = [cls |-> "EnvelopeManager", envelopes |-> r.envelopes,
                        last |-> [op |-> "add_envelopes", status |-> r.status]]
    /\ UNCHANGED <<date, call, args, bill, query, env, bal, envelopes, run, lp, threads>>

SetContribDates(start_contrib_date, contrib_interval) ==
    /\ manager.cls = "EnvelopeManager"
    /\ \E r \in {set_contrib_dates(manager.envelopes, start_contrib_date,
                                   contrib_interval)} :
         manager' = [cls |-> "EnvelopeManager", envelopes |-> r.envelopes,
                     last |-> [op |-> "set_contrib_dates", status |-> r.status,
                               start_contrib_date |-> start_contrib_date,
                               contrib_interval |-> contrib_interval]]
    /\ UNCHANGED <<date, call, args, bill, query, env, bal, envelopes, run, lp, threads>>

InitEnvelopes ==
    /\ date = None /\ call = NoCall
    /\ args = NoArgs /\ bill = NoBill /\ query = NoQuery
    /\ env = NoEnv /\ bal = NoBal
    /\ envelopes = <<>> /\ run = NoRun /\ lp = NoLp /\ threads = NoThreads
    /\ manager = [cls |-> "EnvelopeManager", envelopes |-> <<>>,
                  last |-> [op |-> "none"]]

NextEnvelopes ==
    \/ \E source \in EnvelopeSources : AddEnvelopes(source)
    \/ \E s \in ContribStarts, i \in ContribIntervals : SetContribDates(s, i)

SpecEnvelopes == InitEnvelopes /\ [][NextEnvelopes]_vars

(***************************************************************************)
(* Claims about the ledger.                                                *)
(***************************************************************************)
\* The flows of the excluded class: positive amounts are contributions,
\* negative amounts are payouts.
Excluded(cf, exclude) ==
    \/ exclude = "contributions" /\ cf.amount > 0
    \/ exclude = "payouts" /\ cf.amount < 0

\* C3: for every ledger and every as_of_date, also one later than the last
\* transaction, the balance is the initial allocation plus the amounts of all
\* transactions dated on or before as_of_date, without the excluded class.
C3_Balance ==
    bal.op = "get_balance_as_of_date" =>
        bal.result = env.initial_allocation
            + SumAmounts(SelectSeq(env.schedule, LAMBDA cf :
                  cf.date <= bal.as_of_date /\ ~Excluded(cf, bal.exclude)))

\* How often a transaction occurs in a list.
Count(seq, cf) == Cardinality({ i \in 1..Len(seq) : seq[i] = cf })

DateOrdered(seq) ==
    \A i \in 1..(Len(seq) - 1) : seq[i].date <= seq[i + 1].date

\* C17: after any sequence of calls of add_cash_flows, with single
\* transactions or lists in any date order, the ledger is in non-decreasing
\* date order and holds every transaction passed exactly as often as it was
\* passed.
C17_SortedNoLoss ==
    /\ DateOrdered(env.schedule)
    /\ Len(env.schedule) = Len(env.added)
    /\ \A cf \in CashFlows : Count(env.schedule, cf) = Count(env.added, cf)

\* A single transaction, then a list in descending date order holding the
\* same transaction again.
C17_Witness ==
    /\ Len(env.added) = 3
    /\ env.added[1] = env.added[3]
    /\ env.added[2].date > env.added[3].date
    /\ env.added[1].date = MkDate(2024, 1, 29)
    /\ env.added[2].date = MkDate(2024, 2, 1)
    /\ env.schedule # env.added

\* C13: set_cash_flow_schedule succeeds for any ledger, and immediately
\* afterwards the envelope's ledger holds the transactions of the new ledger.
C13_ReplaceLedger ==
    bal.op = "set_cash_flow_schedule" =>
        /\ bal.status = "ok"
        /\ env.schedule = bal.new_ledger

(***************************************************************************)
(* Claims about the bill.                                                  *)
(***************************************************************************)
\* The stepped occurrence sequence of a bill: its start date, then one
\* calendar step at a time. A step the calendar refuses ends the sequence.
StepOf(b, d) == increment_date(d, b.frequency, b.interval, 1)

\* The due dates of the stepped sequence up to limit, in order.
RECURSIVE SteppedUpTo(_, _, _, _)
SteppedUpTo(b, d, limit, n) ==
    IF d > limit \/ n >= MaxSteps THEN <<>>
    ELSE IF ~b.recurring \/ StepOf(b, d).status # "ok" THEN <<d>>
    ELSE <<d>> \o SteppedUpTo(b, StepOf(b, d).value, limit, n + 1)

\* The earliest due date of the stepped sequence that is on or after
\* (inclusive) or after the reference date; None when the sequence has none.
RECURSIVE EarliestDue(_, _, _, _, _)
EarliestDue(b, d, reference_date, inclusive, n) ==
    IF (inclusive /\ d >= reference_date) \/ (~inclusive /\ d > reference_date)
    THEN d
    ELSE IF n >= MaxSteps \/ StepOf(b, d).status # "ok" THEN None
    ELSE EarliestDue(b, StepOf(b, d).value, reference_date, inclusive, n + 1)

StrictlyIncreasing(seq) ==
    \A i \in 1..(Len(seq) - 1) : seq[i] < seq[i + 1]

\* The arguments the specification says the constructor rejects.
InvalidArgs(a) ==
    \/ a.bill_id = ""
    \/ a.amount_due <= 0
    \/ (a.recurring /\ a.frequency \notin Frequencies)
    \/ (a.interval # None /\ a.interval <= 0)
    \/ (a.occurrences # None /\ a.occurrences <= 0)
    \/ (a.start_date # None /\ a.end_date # None /\ a.end_date < a.start_date)

\* C4: for a recurring bill and a reference date not after its end date,
\* next_instance returns the earliest due date of the stepped sequence that is
\* >= the reference date (inclusive) or > it (not inclusive), and none when
\* that due date falls after the end date; it returns none when the reference
\* date is after the end date.
C4_NextOccurrence ==
    (query.op = "next_instance" /\ bill.recurring) =>
        /\ query.status = "ok"
        /\ IF bill.end_date # None /\ query.reference_date > bill.end_date
           THEN query.result = None
           ELSE LET e == EarliestDue(bill, bill.start_date, query.reference_date,
                                     query.inclusive, 0)
                IN  query.result =
                        IF bill.end_date # None /\ e > bill.end_date THEN None
                        ELSE e

\* C5: instances_in_range returns exactly the due dates of the stepped
\* sequence that lie in [start_reference, min(end_reference, end_date)], in
\* strictly increasing order; at most one for a non-recurring bill.
C5_OccurrencesInRange ==
    query.op = "instances_in_range" =>
        LET last == IF bill.end_date # None
                    THEN Min(query.end_reference, bill.end_date)
                    ELSE query.end_reference
            all == SteppedUpTo(bill, bill.start_date, last, 0)
        IN  /\ query.status = "ok"
            /\ query.instances =
                   SelectSeq(all, LAMBDA d : query.start_reference <= d)
            /\ StrictlyIncreasing(query.instances)
            /\ ~bill.recurring => Len(query.instances) <= 1

\* C14: for a non-recurring bill, next_instance returns the single instance
\* when the reference date is before the due date or equals it with inclusive
\* set; otherwise it returns none, without raising.
C14_NextOccurrenceOneTime ==
    (query.op = "next_instance" /\ ~bill.recurring) =>
        /\ query.status = "ok"
        /\ query.result =
               IF \/ query.reference_date < bill.start_date
                  \/ (query.reference_date = bill.start_date /\ query.inclusive)
               THEN bill.start_date
               ELSE None

\* C15: a recurring bill constructed with a frequency but without an interval
\* behaves like the bill constructed with interval = 1: the construction has
\* the same outcome and next_instance and instances_in_range return what they
\* return on that bill.
C15_DefaultInterval ==
    ( /\ bill.status # "none"
      /\ args.recurring /\ args.frequency \in Frequencies
      /\ args.interval = None /\ ~InvalidArgs(args) )
    => \A b1 \in {Bill__init__([args EXCEPT !.interval = 1])} :
          /\ bill.status = b1.status
          /\ query.op = "next_instance" =>
                [status |-> query.status, value |-> query.result]
                    = next_instance(b1, query.reference_date, query.inclusive)
          /\ query.op = "instances_in_range" =>
                [status |-> query.status, value |-> query.instances]
                    = instances_in_range(b1, query.start_reference,
                                         query.end_reference)

\* C28: for a recurring bill constructed with occurrences = N > 1, the stored
\* end date is the due date of the last instance instances_in_range returns
\* over a window that covers the bill, the N-th due date stepped from the
\* start date.
C28_EndDateIsLastOccurrence ==
    ( /\ query.op = "instances_in_range" /\ query.status = "ok"
      /\ args.recurring /\ args.occurrences # None /\ args.occurrences > 1
      /\ args.interval # None /\ ~InvalidArgs(args)
      /\ query.start_reference <= bill.start_date
      /\ bill.end_date <= query.end_reference )
        => /\ query.instances # <<>>
           /\ bill.end_date = query.instances[Len(query.instances)]

\* C16: every non-recurring bill constructed from arguments the constructor
\* is specified to accept has start date = end date = due date and
\* occurrences = 1, and such arguments declared recurring with
\* occurrences = 1 are stored as a non-recurring bill in that normal form.
C16_NormalForm ==
    (bill.status = "ok" /\ ~InvalidArgs(args)) =>
        /\ ~bill.recurring =>
              /\ bill.start_date = bill.end_date
              /\ bill.occurrences = 1
              /\ ~args.recurring => bill.start_date = args.due_date
        /\ (args.recurring /\ args.occurrences = 1) => ~bill.recurring

\* C6: a recurring bill constructed with occurrences = N > 1 yields exactly N
\* instances over every window that covers [start_date, end_date].
C6_ExactlyN ==
    ( /\ query.op = "instances_in_range"
      /\ args.recurring /\ args.occurrences # None /\ args.occurrences > 1
      /\ query.start_reference <= bill.start_date
      /\ bill.end_date <= query.end_reference )
        => /\ query.status = "ok"
           /\ Len(query.instances) = args.occurrences

\* Three monthly occurrences from January 31st, queried over 2024-2028.
C6_Witness ==
    /\ query.op = "instances_in_range"
    /\ args.recurring /\ args.occurrences = 3
    /\ args.frequency = "monthly" /\ args.interval = 1
    /\ bill.start_date = MkDate(2024, 1, 31)
    /\ query.start_reference = MkDate(2024, 1, 1)
    /\ query.end_reference = MkDate(2028, 12, 31)
    /\ query.instances =
           <<MkDate(2024, 1, 31), MkDate(2024, 2, 29), MkDate(2024, 3, 29)>>

\* C9: a constructor call with a missing or unrecognised frequency while
\* recurring, a non-positive interval or occurrence count, an end date before
\* the start date, an empty identifier or a non-positive amount raises; no
\* such bill is constructed.
C9_ValidationAtConstruction ==
    (bill.status # "none" /\ InvalidArgs(args)) => bill.status # "ok"

(***************************************************************************)
(* Claims about the independent scheduler.                                 *)
(***************************************************************************)
\* The due date of the occurrence an envelope is scheduled for: the earliest
\* due date of its bill after the start date.
TargetDue(e, start_date) ==
    EarliestDue(e.bill, e.bill.start_date, start_date, FALSE, 0)

\* The envelopes the claims are about: a funding window of at least one day
\* and a positive contribution interval.
IsTarget(e, start_date) ==
    /\ e.interval # None /\ e.interval >= 1
    /\ e.bill.recurring \/ e.bill.start_date > start_date

SumPositive(schedule) == SumAmounts(SelectSeq(schedule, is_inflow))

\* The envelope without the ledger it holds.
Fresh(e) == [e EXCEPT !.schedule = <<>>]

\* C22: the ledger the independent scheduler writes to a target is the one it
\* writes when the target holds no ledger, and a call with the parameters of
\* the call before it leaves every envelope as that call left it.
C22_FreshPlan ==
    run.op = "independent" =>
        /\ \A i \in run.scheduled :
              envelopes[i].schedule =
                  schedule_envelope(Fresh(envelopes[i]), run.start_date,
                                    run.half_up).value
        /\ \A p \in { run.previous[k] : k \in 1..Len(run.previous) } :
              (p.start_date = run.start_date /\ p.half_up = run.half_up)
                  => (envelopes = p.envelopes /\ run.status = p.status)

\* Two calls with the same parameters on two envelopes, both scheduled with
\* several contributions.
C22_Witness ==
    /\ run.op = "independent" /\ run.calls = 2 /\ run.status = "ok"
    /\ run.previous[1].start_date = run.start_date
    /\ run.previous[1].half_up = run.half_up
    /\ run.scheduled = {1, 2}
    /\ Len(envelopes[1].schedule) > 2 /\ Len(envelopes[2].schedule) > 2

\* The rounded raw amounts of the intervals of target e: interval length
\* times the rounded daily contribution.
RawContribs(e, start_date, half_up) ==
    LET due == TargetDue(e, start_date)
        intervals == calculate_intervals(start_date, due, e.interval).value
        daily == daily_contribution(e.remaining, due, start_date, half_up)
    IN  [k \in 1..Len(intervals) |-> intervals[k] * daily]

\* The amounts of the transactions of a ledger before its last one.
ContribAmounts(schedule) ==
    [k \in 1..(Len(schedule) - 1) |-> schedule[k].amount]

\* C23: for every target scheduled by the independent scheduler whose raw
\* contributions are not all zero, the residual, remaining minus the sum of
\* the raw contributions, is added to the last non-zero contribution and to
\* no other: the amounts written are the raw amounts, the last non-zero one
\* increased by the residual.
C23_ResidualOnLast ==
    run.op = "independent" =>
        \A i \in run.scheduled :
            IsTarget(envelopes[i], run.start_date) =>
                LET e == envelopes[i]
                    raw == RawContribs(e, run.start_date, run.half_up)
                    nonzero == { k \in 1..Len(raw) : raw[k] # 0 }
                    residual == e.remaining - SumSeq(raw)
                    claimed == [k \in 1..Len(raw) |->
                                  raw[k] + (IF k = MaxOf(nonzero)
                                            THEN residual ELSE 0)]
                IN  nonzero # {} =>
                        ContribAmounts(e.schedule)
                            = SelectSeq(claimed, LAMBDA a : a # 0)

\* The intervals of the funding window of target e.
WindowIntervals(e, start_date) ==
    calculate_intervals(start_date, TargetDue(e, start_date), e.interval).value

\* The start of interval k: the start date plus the lengths of the intervals
\* before it.
IntervalStart(intervals, start_date, k) ==
    AddDays(start_date, SumSeq(SubSeq(intervals, 1, k - 1)))

\* C24: for every target scheduled by the independent scheduler the window
\* is split into full intervals followed by at most one shorter one, the
\* contributions written are dated, in order, at the starts of the intervals
\* whose contribution is not zero, and every such date is on or after the
\* start date and before the due date.
C24_IntervalStarts ==
    run.op = "independent" =>
        \A i \in run.scheduled :
            IsTarget(envelopes[i], run.start_date) =>
                LET e == envelopes[i]
                    intervals == WindowIntervals(e, run.start_date)
                    n == Len(intervals)
                    raw == RawContribs(e, run.start_date, run.half_up)
                    written == [k \in 1..n |->
                                  raw[k] + (IF k = 1 THEN e.remaining - SumSeq(raw)
                                            ELSE 0)]
                    kept == SelectSeq([k \in 1..n |-> k],
                                      LAMBDA k : written[k] # 0)
                IN  /\ \A k \in 1..(n - 1) : intervals[k] = e.interval
                    /\ n >= 1 => (0 < intervals[n] /\ intervals[n] <= e.interval)
                    /\ SumSeq(intervals)
                           = DaysBetween(TargetDue(e, run.start_date), run.start_date)
                    /\ [k \in 1..(Len(e.schedule) - 1) |-> e.schedule[k].date]
                           = [k \in 1..Len(kept) |->
                                 IntervalStart(intervals, run.start_date, kept[k])]
                    /\ \A k \in 1..(Len(e.schedule) - 1) :
                          /\ run.start_date <= e.schedule[k].date
                          /\ e.schedule[k].date < TargetDue(e, run.start_date)

\* C25: in every ledger the independent scheduler writes to a target, every
\* transaction before the last has a positive amount; the last, the payout
\* on the due date, is the only negative one.
C25_PositiveContributions ==
    run.op = "independent" =>
        \A i \in run.scheduled :
            IsTarget(envelopes[i], run.start_date) =>
                LET e == envelopes[i]
                    n == Len(e.schedule)
                IN  /\ \A k \in 1..(n - 1) : e.schedule[k].amount > 0
                    /\ e.schedule[n].amount < 0
                    /\ e.schedule[n].date = TargetDue(e, run.start_date)

\* C20: a run of the independent scheduler whose first target has a
\* contribution interval that is zero or negative ends in an invalid-interval
\* error, a ValueError, and writes no ledger for that target.
C20_InvalidInterval ==
    ( /\ run.op = "independent"
      /\ envelopes[1].cls = "attrs"
      /\ envelopes[1].interval <= 0
      /\ envelopes[1].bill.start_date > run.start_date )
    => /\ run.status = "ValueError"
       /\ envelopes[1].schedule = <<>>

\* C1: for every target scheduled by the independent scheduler, the positive
\* transactions of the produced ledger sum to remaining, the occurrence
\* amount minus the starting allocation, to the cent.
C1_ExactFunding ==
    run.op = "independent" =>
        \A i \in run.scheduled :
            IsTarget(envelopes[i], run.start_date) =>
                SumPositive(envelopes[i].schedule)
                    = envelopes[i].bill.amount_due - envelopes[i].allocated

\* C8: after independent scheduling, for every scheduled target the
\* contribution transactions plus the starting allocation sum to the
\* occurrence amount, and the ledger holds a disbursement of exactly -amount
\* dated on the due date.
C8_LedgerInvariant ==
    run.op = "independent" =>
        \A i \in run.scheduled :
            IsTarget(envelopes[i], run.start_date) =>
                LET e == envelopes[i]
                IN  /\ SumPositive(e.schedule) + e.allocated = e.bill.amount_due
                    /\ \E k \in 1..Len(e.schedule) :
                          /\ e.schedule[k].date = TargetDue(e, run.start_date)
                          /\ e.schedule[k].amount = 0 - e.bill.amount_due

(***************************************************************************)
(* Claims about the global scheduler.                                      *)
(***************************************************************************)
\* C10: for every bill the global scheduler's solver has scheduled, the daily
\* contributions x[i, t] over the days t before the bill's due day sum to the
\* bill's amount.
C10_ExactFunding ==
    lp.status = "Optimal" =>
        \A i \in 1..Len(lp.bills) :
            LET days_until_due ==
                    DaysBetween(lp.bills[i].due_date, run.start_date)
            IN  SumSeq(SubSeq(lp.x[i], 1, days_until_due))
                    = lp.bills[i].amount_due

\* Two bills given latest due date first, both funded over different windows.
C10_Witness ==
    /\ lp.status = "Optimal"
    /\ Len(lp.bills) = 2
    /\ lp.bills[1].due_date < lp.bills[2].due_date
    /\ envelopes[1].bill.start_date > envelopes[2].bill.start_date
    /\ lp.bills[1].amount_due = MaxAmount
    /\ SumSeq(lp.x[1]) = MaxAmount
    /\ lp.x[2][lp.T] > 0

\* The bill whose cash flows the solver's result holds under bill_id.
BillOf(bill_id) ==
    lp.bills[MaxOf({ j \in 1..Len(lp.bills) : lp.bills[j].bill_id = bill_id })]

\* The difference between the largest and the smallest total daily outflow.
Spread(x, T) ==
    LET y == { SumSeq([i \in 1..Len(x) |-> x[i][t]]) : t \in 1..T }
    IN  MaxOf(y) - MinOf(y)

\* The rows of whole units that fund bill i exactly over the days before its
\* due day and give it nothing from the due day on.
FundedRows(i) ==
    LET days_until_due == DaysBetween(lp.bills[i].due_date, run.start_date)
    IN  { r \in [1..lp.T -> 0..lp.bills[i].amount_due] :
            /\ SumSeq(SubSeq(r, 1, days_until_due)) = lp.bills[i].amount_due
            /\ \A t \in (days_until_due + 1)..lp.T : r[t] = 0 }

\* C27: no assignment that funds every bill exactly before its due day, with
\* nothing from the due day on, has a smaller difference between the largest
\* and the smallest total daily outflow than the one the solver returns.
C27_Optimal ==
    lp.status = "Optimal" =>
        LET n == Len(lp.bills)
        IN  /\ \A i \in 1..n : lp.x[i] \in FundedRows(i)
            /\ \A x \in [1..n -> UNION { FundedRows(i) : i \in 1..n }] :
                  (\A i \in 1..n : x[i] \in FundedRows(i))
                      => Spread(x, lp.T) >= Spread(lp.x, lp.T)

\* Three units due after two days and one unit due after three: the solver
\* returns the daily outflows 2, 1, 1, where 2, 2, 0 has the same largest
\* outflow and a larger difference.
C27_Witness ==
    /\ lp.status = "Optimal" /\ lp.T = 3 /\ Len(lp.bills) = 2
    /\ lp.bills[1].amount_due = 3 /\ lp.bills[2].amount_due = 1
    /\ lp.x = <<<<2, 1, 0>>, <<0, 0, 1>>>>

\* C26: in the solver's result x[i, t] = 0 for every day t from the due day
\* of bill i on, and every cash flow aggregate_cash_flows makes of a bill's
\* daily contributions, for any contribution interval, is a positive amount
\* dated on or after the start date and before the bill's due date.
C26_NothingAfterDue ==
    /\ lp.status = "Optimal" =>
          \A i \in 1..Len(lp.bills) :
              \A t \in 1..lp.T :
                  t > DaysBetween(lp.bills[i].due_date, run.start_date)
                      => lp.x[i][t] = 0
    /\ run.op = "aggregate_cash_flows" =>
          /\ run.status = "ok"
          /\ \A k \in 1..Len(run.result) :
                /\ run.result[k].amount > 0
                /\ run.start_date <= run.result[k].date
                /\ run.result[k].date < BillOf(run.bill_id).due_date

\* Two bills, the earlier one funded over two days and bucketed into
\* intervals of two days, so that its one cash flow is at the start date.
C26_Witness ==
    /\ run.op = "aggregate_cash_flows" /\ run.interval = 2
    /\ Len(lp.bills) = 2 /\ lp.T = 3
    /\ lp.bills[1].bill_id = run.bill_id
    /\ lp.bills[1].due_date < lp.bills[2].due_date
    /\ lp.x[1][2] > 0 /\ lp.x[1][3] = 0
    /\ Len(run.result) = 1 /\ run.result[1].date = run.start_date

\* A one-time obligation due on or before the reference date has no next
\* occurrence there.
NoNextOccurrence(e, start_date) ==
    ~e.bill.recurring /\ e.bill.start_date <= start_date

\* The envelopes are objects the schedulers can read, with a positive
\* contribution interval.
Schedulable(envs) ==
    \A i \in 1..Len(envs) :
        /\ envs[i].cls = "attrs"
        /\ envs[i].interval # None /\ envs[i].interval >= 1

\* C12: when some target has no next occurrence at the reference date, a run
\* of the independent or of the global scheduler completes without raising,
\* leaves that target's ledger unchanged and still schedules every other
\* target of the call.
C12_SkipNotError ==
    ( /\ run.op \in {"independent", "lp"}
      /\ Schedulable(envelopes)
      /\ \E i \in 1..Len(envelopes) : NoNextOccurrence(envelopes[i], run.start_date) )
    => /\ run.status = "ok"
       /\ \A i \in 1..Len(envelopes) :
            IF NoNextOccurrence(envelopes[i], run.start_date)
            THEN envelopes[i].schedule = <<>>
            ELSE envelopes[i].schedule # <<>>

\* C19: when the solver reports a status other than Optimal, the call of the
\* global scheduler ends in ValueError, raised once by the status check, and
\* leaves the envelopes, their ledgers included, as they were before the
\* call: nothing is solved again and no ledger is written another way.
C19_NonOptimalRaises ==
    [][ ( /\ run.op = "none" /\ run'.op = "lp"
          /\ lp'.status \in {"Optimal", "ValueError"}
          /\ lp'.reported # "Optimal" )
        => /\ run'.status = "ValueError"
           /\ envelopes' = envelopes ]_vars

\* Two targets, and a solver that reports Infeasible.
C19_Witness ==
    /\ run.op = "lp" /\ run.status = "ValueError"
    /\ lp.status = "ValueError" /\ lp.reported = "Infeasible"
    /\ Len(envelopes) = 2

\* C11: after a global-scheduler run whose solver found an optimum, the
\* ledger of every scheduled target is its contribution transactions followed
\* by a last transaction of exactly -amount dated on the due date.
C11_LpLedger ==
    (run.op = "lp" /\ lp.status = "Optimal") =>
        \A i \in 1..Len(envelopes) :
            IsTarget(envelopes[i], run.start_date) =>
                LET e == envelopes[i]
                    n == Len(e.schedule)
                IN  /\ run.status = "ok"
                    /\ n >= 1
                    /\ e.schedule[n].date = TargetDue(e, run.start_date)
                    /\ e.schedule[n].amount = 0 - e.bill.amount_due
                    /\ \A k \in 1..(n - 1) : is_inflow(e.schedule[k])

(***************************************************************************)
(* Claims about scheduler calls running at once.                           *)
(***************************************************************************)
\* What call c would have done running alone on the envelopes it was given.
Alone(c) ==
    IndependentScheduler_schedule(threads.calls[c].given, 1,
        threads.calls[c].start_date, threads.calls[c].half_up, {})

\* C18: when two calls of the independent scheduler on disjoint envelopes
\* have ended, however their steps were interleaved, every envelope is as
\* the call it was given to leaves it when running alone, and each call has
\* ended as it ends alone.
C18_Interleaving ==
    (threads.calls # <<>> /\ \A c \in Calls : threads.calls[c].pc = "done") =>
        \A c \in Calls :
            /\ threads.calls[c].status = Alone(c).status
            /\ \A j \in 1..Len(threads.calls[c].targets) :
                  envelopes[threads.calls[c].targets[j]] = Alone(c).envelopes[j]

\* Both calls ended normally after steps of one fell between steps of the
\* other, and wrote different ledgers.
C18_Witness ==
    /\ threads.calls # <<>> /\ threads.interleaved
    /\ \A c \in Calls : threads.calls[c].pc = "done" /\ threads.calls[c].status = "ok"
    /\ Len(envelopes[1].schedule) > 1 /\ Len(envelopes[3].schedule) > 1
    /\ envelopes[2].schedule # <<>>
    /\ envelopes[1].schedule # envelopes[3].schedule

(***************************************************************************)
(* Claims about the managers.                                              *)
(***************************************************************************)
UniqueIds(bills) ==
    \A i \in 1..Len(bills) : \A j \in 1..Len(bills) :
        i # j => bills[i].bill_id # bills[j].bill_id

\* C21: after any sequence of add_bills, create_bills and remove_bill calls,
\* also with a list that holds two bills of one bill_id, no two bills of the
\* manager share a bill_id, and a call of add_bills that would break this
\* raises and leaves the list as it was.
C21_UniqueBillIds ==
    manager.cls = "BillManager" =>
        /\ UniqueIds(manager.bills)
        /\ (manager.last.op = "add_bills" /\ manager.last.arg.kind = "list"
              /\ ~UniqueIds(manager.last.before \o manager.last.arg.bills))
             => (manager.last.status = "ValueError"
                   /\ manager.bills = manager.last.before)

\* The manager's state is the result of a call of set_contrib_dates that
\* returned.
AfterSetContribDates ==
    /\ manager.cls = "EnvelopeManager"
    /\ manager.last.op = "set_contrib_dates"
    /\ manager.last.status = "ok"

Managed == 1..Len(manager.envelopes)
SameBill(i, j) ==
    manager.envelopes[i].bill_instance.bill_id
        = manager.envelopes[j].bill_instance.bill_id
DueOf(i) == manager.envelopes[i].bill_instance.due_date

\* Envelope i shares its bill_id with an envelope that is not fully funded
\* on the start date of the call.
InUnderfundedGroup(i) ==
    \E k \in Managed :
        /\ SameBill(i, k)
        /\ ~is_fully_funded(manager.envelopes[k], manager.last.start_contrib_date)

\* Envelope i comes before envelope j in due-date order (envelopes of one
\* due date in the order of the manager's list).
Before(i, j) == DueOf(i) < DueOf(j) \/ (DueOf(i) = DueOf(j) /\ i < j)

C30_WellFormedWindows ==
    AfterSetContribDates =>
        \A i \in Managed :
            /\ manager.envelopes[i].start_contrib_date
                   <= manager.envelopes[i].end_contrib_date
            /\ Envelope__init__(manager.envelopes[i].bill_instance,
                                manager.envelopes[i].initial_allocation,
                                manager.envelopes[i].start_contrib_date,
                                manager.envelopes[i].end_contrib_date,
                                manager.envelopes[i].contrib_interval).status = "ok"

(***************************************************************************)
(* Claims about the calendar.                                              *)
(***************************************************************************)
\* k sequential applications of increment_date(., f, i, 1).
RECURSIVE Repeated(_, _, _, _)
Repeated(d, f, i, k) ==
    IF k = 0 THEN d ELSE Repeated(increment_date(d, f, i, 1).value, f, i, k - 1)

\* Months counted from year 0.
MonthIndex(d) == YearOf(d) * 12 + MonthOf(d) - 1

\* The number of months a month-based call advances by.
MonthsAdvanced(c) ==
    CASE c.frequency = "monthly" -> c.interval * c.num_intervals
      [] c.frequency = "quarterly" -> 3 * c.interval * c.num_intervals
      [] c.frequency = "annual" -> 12 * c.interval * c.num_intervals

\* C2 as stated: for every date, frequency, interval >= 1 and repetitions
\* k >= 1, increment(d, f, i, k) equals k sequential applications of
\* increment(., f, i, 1) starting from d.
C2_Additivity ==
    call.status = "ok" =>
        call.result =
            Repeated(call.ref, call.frequency, call.interval, call.num_intervals)

\* C2 amended: additivity holds for daily and weekly steps from every date
\* and for monthly, quarterly and annual steps from every date whose day of
\* month is at most 28; from a day 29-31 the k sequential steps end in the
\* same month as the single call, on the same or an earlier day.
C2_AdditivityAmended ==
    call.status = "ok" =>
        LET seq == Repeated(call.ref, call.frequency, call.interval,
                            call.num_intervals)
        IN  /\ (call.frequency \in {"daily", "weekly"} \/ DayOf(call.ref) <= 28)
                    => call.result = seq
            /\ MonthIndex(seq) = MonthIndex(call.result)
            /\ DayOf(seq) <= DayOf(call.result)

\* A two-month step from January 31st: the sequential steps end on
\* March 29th, the single call on March 31st.
C2_Witness ==
    /\ call.status = "ok"
    /\ call.ref = MkDate(2024, 1, 31)
    /\ call.frequency = "monthly" /\ call.interval = 1 /\ call.num_intervals = 2
    /\ call.result = MkDate(2024, 3, 31)
    /\ Repeated(call.ref, "monthly", 1, 2) = MkDate(2024, 3, 29)

\* C7: a monthly, quarterly or annual step of n months ends in exactly the
\* month n months after the source month, on the day min(source day, days in
\* that month); Jan 31 + 1 month is Feb 29 in 2024, and Feb 29 + 1 year is
\* Feb 28 in 2025.
C7_CalendarSafe ==
    /\ (call.status = "ok" /\ call.frequency \in {"monthly", "quarterly", "annual"})
          => /\ MonthIndex(call.result) = MonthIndex(call.ref) + MonthsAdvanced(call)
             /\ DayOf(call.result) =
                    Min(DayOf(call.ref),
                        monthrange(YearOf(call.result), MonthOf(call.result)))
             /\ IsDate(call.result)
    /\ (/\ call.status = "ok" /\ call.ref = MkDate(2024, 1, 31)
        /\ call.frequency = "monthly" /\ call.interval * call.num_intervals = 1)
          => call.result = MkDate(2024, 2, 29)
    /\ (/\ call.status = "ok" /\ call.ref = MkDate(2024, 2, 29)
        /\ call.frequency = "annual" /\ call.interval * call.num_intervals = 1)
          => call.result = MkDate(2025, 2, 28)

\* The leap day has been stepped by one year into 2025.
C7_Witness ==
    /\ call.status = "ok"
    /\ call.ref = MkDate(2024, 2, 29)
    /\ call.frequency = "annual" /\ call.interval = 1 /\ call.num_intervals = 1
    /\ date = MkDate(2025, 2, 28)

====
